---- MODULE Spec2Model ----
(***************************************************************************)
(* Model of the djikstra crate: the shortest-path routine                  *)
(* (src/src/djikstra.rs), the HashMap-backed minimum priority queue        *)
(* (src/src/pq.rs) and the adjacency-list graph with its parser and its    *)
(* equality (src/src/graph.rs).                                            *)
(***************************************************************************)
EXTENDS Integers, Sequences, FiniteSets, TLC

\* ------------------------------------------------------------------ bounds
MaxVertices == 3
MaxEdges == 2
MaxWeight == 1
\* usize is modelled USIZE_BITS wide; usize::MAX is the all-ones word.
USIZE_BITS == 4
USIZE_MAX == (2 ^ USIZE_BITS) - 1

\* Option<T>: None is the empty sequence, Some(x) the one-element sequence.
None == <<>>
Some(x) == <<x>>

\* Result<T, E>
Ok(x) == << "Ok", x >>
Err(e) == << "Err", e >>
is_ok(r) == r[1] = "Ok"

Range(f) == { f[i] : i \in DOMAIN f }
Min(S) == CHOOSE x \in S : \A y \in S : x <= y

VARIABLES
    graph,            \* Graph.adj: vertex -> sequence of <<neighbor, weight>>
    src,              \* the source vertex handed to djikstra
    overflow_checks,  \* TRUE: build panics on overflow; FALSE: build wraps
    pc,               \* position of the call inside djikstra
    parents,          \* Vec<Option<usize>>
    dists_from_src,   \* Vec<usize>
    checked,          \* Vec<bool>
    pq,               \* PriorityQueue.map: element -> key
    node,             \* vertex bound by the last `while let Some((node, dist_src))`
    dist_src,         \* key bound by the last `while let Some((node, dist_src))`
    paths_from_src,   \* Vec<Option<Vec<usize>>>, the paths returned
    overflowed,       \* history: some `dist + dist_src` of this call overflowed
    op,               \* the last call made on the queue: << name, element, key >>
    ret,              \* what the last extract_min returned
    watch,            \* history: the last key decrease, << element, key, stage >>
    lhs, rhs,         \* the two graphs handed to Graph::eq
    eq_ret,           \* Option<bool>: what Graph::eq returned
    doc,              \* history: the document the text was written from
    text,             \* the &str handed to Graph::from_str, a sequence of chars
    parse_ret         \* Option<Result<Graph, ParseGraphError>>

djk_vars == << graph, src, overflow_checks, pc, parents, dists_from_src, checked,
               node, dist_src, paths_from_src, overflowed >>
pq_vars == << op, ret, watch >>
eq_vars == << lhs, rhs, eq_ret >>
parse_vars == << doc, text, parse_ret >>
vars == << djk_vars, pq, pq_vars, eq_vars, parse_vars >>

\* ------------------------------------------------------------------ graph.rs
n_vertices(g) == Len(g)

\* vertex ids are 0-based in the program; graph is a 1-based TLA+ sequence.
neighbors_of(g, vertex) == g[vertex + 1]

\* slice::contains
contains(list, x) == \E i \in 1..Len(list) : list[i] = x

\* PartialEq for Graph: for each vertex in turn, the two lists have one length
\* and each holds every element of the other.
eq(self, other) ==
    IF Len(self) # Len(other) THEN FALSE
    ELSE \A vertex \in 1..Len(self) :
            LET neighbors == self[vertex]
                other_neighbors == other[vertex]
            IN  /\ Len(neighbors) = Len(other_neighbors)
                /\ (\A i \in 1..Len(neighbors) : contains(other_neighbors, neighbors[i]))
                /\ (\A i \in 1..Len(other_neighbors) : contains(neighbors, other_neighbors[i]))

\* ------------------------------------------------------------------ graph.rs, from_str
\* A &str is a sequence of one-character strings.
DigitChars == << "0", "1", "2", "3", "4", "5", "6", "7", "8", "9" >>
is_digit(c) == \E d \in 1..10 : DigitChars[d] = c
digit_of(c) == (CHOOSE d \in 1..10 : DigitChars[d] = c) - 1

\* str::split_once(ch): the parts before and after the first ch.
split_once(s, ch) ==
    LET at == { i \in 1..Len(s) : s[i] = ch }
    IN  IF at = {} THEN None
        ELSE Some(<< SubSeq(s, 1, Min(at) - 1), SubSeq(s, Min(at) + 1, Len(s)) >>)

RECURSIVE digits_value(_, _, _)
digits_value(ds, i, acc) ==
    IF i > Len(ds) THEN acc ELSE digits_value(ds, i + 1, 10 * acc + digit_of(ds[i]))

\* str::parse::<usize>(): an optional '+', then one or more decimal digits
\* whose value fits a usize.
parse_usize(s) ==
    LET ds == IF s # <<>> /\ s[1] = "+" THEN Tail(s) ELSE s
    IN  IF s = <<>> THEN Err("Empty")
        ELSE IF ds = <<>> \/ \E i \in 1..Len(ds) : ~is_digit(ds[i]) THEN Err("InvalidDigit")
        ELSE IF digits_value(ds, 1, 0) > USIZE_MAX THEN Err("PosOverflow")
        ELSE Ok(digits_value(ds, 1, 0))

\* str::lines(): the pieces between line feeds; a final line feed opens no
\* further line.
RECURSIVE lines(_)
lines(s) ==
    IF s = <<>> THEN <<>>
    ELSE LET sp == split_once(s, "\n")
         IN  IF sp = None THEN << s >> ELSE << sp[1][1] >> \o lines(sp[1][2])

\* Iterator::take(n)
take(list, n) == SubSeq(list, 1, IF n < Len(list) THEN n ELSE Len(list))

is_whitespace(c) == c \in { " ", "\t", "\n", "\r" }

\* str::split_whitespace(): the maximal runs of non-whitespace characters.
RECURSIVE split_whitespace(_, _, _)
split_whitespace(s, i, cur) ==
    IF i > Len(s) THEN (IF cur = <<>> THEN <<>> ELSE << cur >>)
    ELSE IF is_whitespace(s[i])
    THEN (IF cur = <<>> THEN <<>> ELSE << cur >>) \o split_whitespace(s, i + 1, <<>>)
    ELSE split_whitespace(s, i + 1, Append(cur, s[i]))

\* One edge token with the two numbers stored the other way round.
parse_edge_swapped(edge_str) ==
    LET sp == split_once(edge_str, ",")
    IN  IF sp = None THEN Err("vertex doesnt have weight with it")
        ELSE IF ~is_ok(parse_usize(sp[1][1])) THEN Err("cannot parse vertex")
        ELSE IF ~is_ok(parse_usize(sp[1][2])) THEN Err("cannot parse weight")
        ELSE Ok(<< parse_usize(sp[1][2])[2], parse_usize(sp[1][1])[2] >>)

\* One edge token: split_once(','), `res?`, then the neighbor id and the weight.
parse_edge(edge_str) ==
    LET sp == split_once(edge_str, ",")
    IN  IF sp = None THEN Err("vertex doesnt have weight with it")
        ELSE IF ~is_ok(parse_usize(sp[1][1])) THEN Err("cannot parse vertex")
        ELSE IF ~is_ok(parse_usize(sp[1][2])) THEN Err("cannot parse weight")
        ELSE Ok(<< parse_usize(sp[1][1])[2], parse_usize(sp[1][2])[2] >>)

\* `for res in neighbors_parsed { adj[vertex].push(..) }`: the list of one
\* vertex, or the first error.
RECURSIVE parse_neighbors(_, _, _)
parse_neighbors(tokens, i, acc) ==
    IF i > Len(tokens) THEN Ok(acc)
    ELSE LET e == parse_edge(tokens[i])
         IN  IF is_ok(e) THEN parse_neighbors(tokens, i + 1, Append(acc, e[2])) ELSE e

\* `for (vertex, neighbors) in edges.lines().take(n_vertex).enumerate()`:
\* adj with the lists of the lines filled in, or the first error.
RECURSIVE parse_lines(_, _, _)
parse_lines(ls, vertex, adj) ==
    IF vertex > Len(ls) THEN Ok(adj)
    ELSE LET r == parse_neighbors(split_whitespace(ls[vertex], 1, <<>>), 1, <<>>)
         IN  IF is_ok(r) THEN parse_lines(ls, vertex + 1, [adj EXCEPT ![vertex] = r[2]])
             ELSE r

\* FromStr for Graph
from_str(s) ==
    LET sp == split_once(s, "\n")
    IN  IF sp = None THEN Err("cannot split on newline")
        ELSE LET n_vertex == parse_usize(sp[1][1])
             IN  IF ~is_ok(n_vertex) THEN Err("cannot parse n_vertices")
                 ELSE parse_lines(take(lines(sp[1][2]), n_vertex[2]), 1,
                                  [i \in 1..n_vertex[2] |-> <<>>])

\* ------------------------------------------------------------------ pq.rs
EmptyMap == [x \in {} |-> 0]

new == EmptyMap

from_keys(input) == [item \in input |-> USIZE_MAX]

insert(map, element, key) ==
    [x \in DOMAIN map \cup {element} |-> IF x = element THEN key ELSE map[x]]

\* change_key that inserts an absent element.
change_key_upsert(map, element, key) == insert(map, element, key)

\* change_key that never writes the key.
change_key_dropped(map, element, key) == map

change_key(map, element, key) ==
    IF element \in DOMAIN map THEN [map EXCEPT ![element] = key] ELSE map

\* Every order in which HashMap::iter may visit the entries of the map.
IterOrders(map) ==
    LET S == DOMAIN map
        n == Cardinality(S)
    IN  { o \in [1..n -> S] : \A i, j \in 1..n : i # j => o[i] # o[j] }

\* extract_min with the comparison of the scan turned round.
RECURSIVE scan_min_reversed(_, _, _, _)
scan_min_reversed(map, order, i, acc) ==
    IF i > Len(order) THEN acc
    ELSE LET key == order[i]
             value == map[key]
             next == IF acc.min_value # None
                     THEN IF acc.min_value[1] < value
                          THEN [min_value |-> Some(value), min_key |-> Some(key)]
                          ELSE acc
                     ELSE [min_value |-> Some(value), min_key |-> Some(key)]
         IN  scan_min_reversed(map, order, i + 1, next)

\* The scan of extract_min: keeps the first entry seen and replaces it only
\* by an entry with a strictly smaller value.
RECURSIVE scan_min(_, _, _, _)
scan_min(map, order, i, acc) ==
    IF i > Len(order) THEN acc
    ELSE LET key == order[i]
             value == map[key]
             next == IF acc.min_value # None
                     THEN IF acc.min_value[1] > value
                          THEN [min_value |-> Some(value), min_key |-> Some(key)]
                          ELSE acc
                     ELSE [min_value |-> Some(value), min_key |-> Some(key)]
         IN  scan_min(map, order, i + 1, next)

\* extract_min under one iteration order: the returned Option<(T, usize)> and
\* the map that is left.
extract_min(map, order) ==
    LET found == scan_min(map, order, 1, [min_value |-> None, min_key |-> None])
    IN  IF found.min_key # None
        THEN [ret |-> Some(<< found.min_key[1], map[found.min_key[1]] >>),
              map |-> [x \in DOMAIN map \ {found.min_key[1]} |-> map[x]]]
        ELSE [ret |-> None, map |-> map]

\* ------------------------------------------------------------------ djikstra.rs
\* `dist + dist_src` on usize.
add_usize(a, b) ==
    [overflow |-> a + b > USIZE_MAX, value |-> (a + b) % (2 ^ USIZE_BITS)]

\* The `for &(neighbour, dist) in neighbours.iter()` loop from edge i on.
\* st carries parents, dists_from_src, pq, whether the addition panicked and
\* whether an addition overflowed.
RECURSIVE relax(_, _, _, _, _, _)
relax(st, neighbours, i, nd, d_src, chk) ==
    IF i > Len(neighbours) \/ st.panicked THEN st
    ELSE LET neighbour == neighbours[i][1]
             dist == neighbours[i][2]
             sum == add_usize(dist, d_src)
         IN  IF chk[neighbour + 1]
             THEN relax(st, neighbours, i + 1, nd, d_src, chk)
             ELSE IF sum.overflow /\ overflow_checks
             THEN [st EXCEPT !.panicked = TRUE, !.overflowed = TRUE]
             ELSE IF st.dists[neighbour + 1] > sum.value
             THEN relax([st EXCEPT !.dists[neighbour + 1] = sum.value,
                                   !.parents[neighbour + 1] = Some(nd),
                                   !.pq = change_key(st.pq, neighbour, sum.value),
                                   !.overflowed = st.overflowed \/ sum.overflow],
                        neighbours, i + 1, nd, d_src, chk)
             ELSE relax([st EXCEPT !.overflowed = st.overflowed \/ sum.overflow],
                        neighbours, i + 1, nd, d_src, chk)

\* `while let Some(node) = parents[*path.last().unwrap()] { path.push(node) }`.
\* A walk longer than the vertex count has entered a cycle of parents and never
\* leaves it: the loop does not end, reported here as diverged.
RECURSIVE walk_parents(_, _)
walk_parents(par, path) ==
    IF par[path[Len(path)] + 1] = None THEN [diverged |-> FALSE, path |-> path]
    ELSE IF Len(path) > Len(par) THEN [diverged |-> TRUE, path |-> path]
    ELSE walk_parents(par, Append(path, par[path[Len(path)] + 1][1]))

reverse(s) == [i \in 1..Len(s) |-> s[Len(s) + 1 - i]]

\* path_result without the `|| path[0] == src` alternative.
path_result_no_src(path, s) ==
    IF Len(path) > 1 THEN Some(path) ELSE None

\* `if path.len() > 1 || path[0] == src { Some(path) } else { None }`
path_result(path, s) ==
    IF Len(path) > 1 \/ path[1] = s THEN Some(path) ELSE None

\* ------------------------------------------------------------------ inputs
Vertices(n) == 0..(n - 1)
Weights == 0..MaxWeight

\* Edge lists <<from, to, weight>> of at most MaxEdges edges, grouped by source
\* vertex; the order inside one vertex's list is free.
EdgeSeqs(n) ==
    UNION { { es \in [1..k -> Vertices(n) \X Vertices(n) \X Weights] :
                \A i \in 1..(k - 1) : es[i][1] <= es[i + 1][1] } : k \in 0..MaxEdges }

RECURSIVE adj_of(_, _, _)
adj_of(es, u, i) ==
    IF i > Len(es) THEN <<>>
    ELSE IF es[i][1] = u THEN << << es[i][2], es[i][3] >> >> \o adj_of(es, u, i + 1)
    ELSE adj_of(es, u, i + 1)

\* Graph::new(adj)
GraphOf(n, es) == [u \in 1..n |-> adj_of(es, u - 1, 1)]

\* ------------------------------------------------------------------ djikstra
\* The parts of the state a specification does not exercise.
DjkIdle ==
    /\ graph = <<>> /\ src = 0 /\ overflow_checks = FALSE /\ pc = "idle"
    /\ parents = <<>> /\ dists_from_src = <<>> /\ checked = <<>>
    /\ node = None /\ dist_src = None /\ paths_from_src = <<>>
    /\ overflowed = FALSE
PqIdle == op = << "new", 0, 0 >> /\ ret = None /\ watch = None
EqIdle == lhs = <<>> /\ rhs = <<>> /\ eq_ret = None
ParseIdle == doc = <<>> /\ text = <<>> /\ parse_ret = None

Init ==
    /\ \E n \in 1..MaxVertices : \E es \in EdgeSeqs(n) :
          /\ graph = GraphOf(n, es)
          /\ src \in Vertices(n)
    /\ overflow_checks \in BOOLEAN
    /\ pc = "entry"
    /\ parents = <<>>
    /\ dists_from_src = <<>>
    /\ checked = <<>>
    /\ pq = EmptyMap
    /\ node = None
    /\ dist_src = None
    /\ paths_from_src = <<>>
    /\ overflowed = FALSE
    /\ PqIdle /\ EqIdle /\ ParseIdle

\* The range `0..n_elems - 1` handed to from_keys.
seed_range(n_elems) == 0..(n_elems - 2)

\* Lines 10-17: the vectors, the queue and the source's distance and key.
Setup ==
    /\ pc = "entry"
    /\ LET n_elems == n_vertices(graph)
       IN  /\ parents' = [i \in 1..n_elems |-> None]
           /\ dists_from_src' = [i \in 1..n_elems |-> IF i = src + 1 THEN 0 ELSE USIZE_MAX]
           /\ checked' = [i \in 1..n_elems |-> FALSE]
           /\ pq' = change_key(from_keys(seed_range(n_elems)), src, 0)
    /\ pc' = "loop"
    /\ UNCHANGED << graph, src, overflow_checks, node, dist_src, paths_from_src,
                    overflowed >>
    /\ UNCHANGED << pq_vars, eq_vars, parse_vars >>

\* One iteration of `while let Some((node, dist_src)) = pq.extract_min()`.
LoopIter ==
    /\ pc = "loop"
    /\ \E order \in IterOrders(pq) :
          LET ex == extract_min(pq, order)
          IN  /\ ex.ret # None
              /\ LET nd == ex.ret[1][1]
                     ds == ex.ret[1][2]
                     st == relax([parents |-> parents, dists |-> dists_from_src,
                                  pq |-> ex.map, panicked |-> FALSE,
                                  overflowed |-> overflowed],
                                 neighbors_of(graph, nd), 1, nd, ds, checked)
                 IN  /\ node' = Some(nd)
                     /\ dist_src' = Some(ds)
                     /\ parents' = st.parents
                     /\ dists_from_src' = st.dists
                     /\ pq' = st.pq
                     /\ overflowed' = st.overflowed
                     /\ IF st.panicked
                        THEN /\ pc' = "panic"
                             /\ checked' = checked
                        ELSE /\ pc' = "loop"
                             /\ checked' = [checked EXCEPT ![nd + 1] = TRUE]
    /\ UNCHANGED << graph, src, overflow_checks, paths_from_src >>
    /\ UNCHANGED << pq_vars, eq_vars, parse_vars >>

\* Lines 32-45: the path of every v in 0..n_elems, in order. None of them is
\* returned when one walk does not end.
RECURSIVE build_paths(_, _, _, _)
build_paths(par, s, v, acc) ==
    IF v >= Len(par) THEN [diverged |-> FALSE, paths |-> acc]
    ELSE LET w == walk_parents(par, << v >>)
         IN  IF w.diverged THEN [diverged |-> TRUE, paths |-> acc]
             ELSE build_paths(par, s, v + 1, Append(acc, path_result(reverse(w.path), s)))

\* extract_min returns None: the loop is left, the paths are rebuilt and the
\* function returns (paths_from_src, dists_from_src).
Finish ==
    /\ pc = "loop"
    /\ \E order \in IterOrders(pq) : extract_min(pq, order).ret = None
    /\ LET r == build_paths(parents, src, 0, <<>>)
       IN  /\ paths_from_src' = r.paths
           /\ pc' = IF r.diverged THEN "diverged" ELSE "done"
    /\ UNCHANGED << graph, src, overflow_checks, parents, dists_from_src, checked,
                    pq, node, dist_src, overflowed >>
    /\ UNCHANGED << pq_vars, eq_vars, parse_vars >>

Next == Setup \/ LoopIter \/ Finish

Spec == Init /\ [][Next]_vars

\* ------------------------------------------------------------------ claims on djikstra
\* The weights of the edges a -> b stored in the adjacency list of a.
EdgeWeights(g, a, b) == { e[2] : e \in { x \in Range(neighbors_of(g, a)) : x[1] = b } }

\* Directed walks from s over at most n vertices (a lightest walk repeats no
\* vertex when no weight is negative).
WalksFrom(g, s) ==
    LET n == n_vertices(g)
    IN  UNION { { p \in [1..k -> Vertices(n)] :
                    /\ p[1] = s
                    /\ \A i \in 1..(k - 1) : EdgeWeights(g, p[i], p[i + 1]) # {} }
                : k \in 1..n }

RECURSIVE LightestWeight(_, _, _)
LightestWeight(g, p, i) ==
    IF i >= Len(p) THEN 0
    ELSE Min(EdgeWeights(g, p[i], p[i + 1])) + LightestWeight(g, p, i + 1)

\* The sums of weights the stored edges along path p can add up to.
RECURSIVE PathWeights(_, _, _)
PathWeights(g, p, i) ==
    IF i >= Len(p) THEN {0}
    ELSE { w + r : w \in EdgeWeights(g, p[i], p[i + 1]), r \in PathWeights(g, p, i + 1) }

WalksTo(g, s, v) == { p \in WalksFrom(g, s) : p[Len(p)] = v }
Reachable(g, s, v) == WalksTo(g, s, v) # {}
ShortestDistance(g, s, v) == Min({ LightestWeight(g, p, 1) : p \in WalksTo(g, s, v) })

Returned == pc = "done"

\* C1: the distances returned are the minimum walk weights from src, and a
\* distance is usize::MAX exactly for the vertices no walk from src reaches.
C1_DistancesAreShortest ==
    Returned =>
        \A v \in Vertices(n_vertices(graph)) :
            /\ (dists_from_src[v + 1] = USIZE_MAX) <=> ~Reachable(graph, src, v)
            /\ Reachable(graph, src, v) =>
                   dists_from_src[v + 1] = ShortestDistance(graph, src, v)

\* C2: every vertex reachable from src is returned a path that starts with src,
\* ends with the vertex, runs along stored edges and weighs its distance.
C2_PathsAreValid ==
    Returned =>
        \A v \in Vertices(n_vertices(graph)) :
            Reachable(graph, src, v) =>
                /\ paths_from_src[v + 1] # None
                /\ LET p == paths_from_src[v + 1][1]
                   IN  /\ p[1] = src
                       /\ p[Len(p)] = v
                       /\ \A i \in 1..(Len(p) - 1) : EdgeWeights(graph, p[i], p[i + 1]) # {}
                       /\ dists_from_src[v + 1] \in PathWeights(graph, p, 1)

\* C3: a relaxation never stores a wrapped sum: every distance an iteration
\* writes is the true sum of the extracted key and the weight of an edge of the
\* extracted vertex.
C3_NoWrappedDistance ==
    [][ pc = "loop" =>
          \A v \in Vertices(n_vertices(graph)) :
              dists_from_src'[v + 1] # dists_from_src[v + 1] =>
                  \E w \in EdgeWeights(graph, node'[1], v) :
                      dists_from_src'[v + 1] = dist_src'[1] + w ]_vars

ParentsAcyclic ==
    \A v \in 1..Len(parents) : ~walk_parents(parents, << v - 1 >>).diverged

\* C4: the call ends: the queue loses one unfinalized vertex per iteration and
\* the walks along the predecessor links end, as no cycle of predecessors (and
\* no vertex that is its own predecessor) ever exists.
C4_Terminates ==
    /\ pc # "diverged"
    /\ ParentsAcyclic
    /\ pc = "loop" => \A x \in DOMAIN pq : ~checked[x + 1]

\* C5: in the returned result a path is present exactly for the vertices with
\* a finite distance, the path of src is [src] and its distance is 0.
C5_PathIffFinite ==
    Returned =>
        /\ \A v \in Vertices(n_vertices(graph)) :
               (paths_from_src[v + 1] # None) <=> (dists_from_src[v + 1] # USIZE_MAX)
        /\ paths_from_src[src + 1] = Some(<< src >>)
        /\ dists_from_src[src + 1] = 0

\* A returned result with an absent path, and a present path of a vertex other
\* than src.
C5_Witness ==
    /\ Returned
    /\ \E v \in Vertices(n_vertices(graph)) : paths_from_src[v + 1] = None
    /\ \E v \in Vertices(n_vertices(graph)) :
           v # src /\ paths_from_src[v + 1] # None /\ Len(paths_from_src[v + 1][1]) > 1

\* C10: when the main loop starts the queue holds every vertex id, src with key
\* 0 and every other vertex with key usize::MAX; when the loop has ended every
\* vertex has been extracted and marked checked.
C10_QueueSeededWithAllVertices ==
    /\ (pc = "loop" /\ node = None) =>
           /\ DOMAIN pq = Vertices(n_vertices(graph))
           /\ \A x \in DOMAIN pq : pq[x] = IF x = src THEN 0 ELSE USIZE_MAX
    /\ pc \in {"done", "diverged"} => \A v \in 1..Len(checked) : checked[v]

\* C11: in a call without arithmetic overflow, every element still queued has
\* its tentative distance as key; the vertex an iteration extracts was not
\* extracted before; the extracted keys never decrease; and the distance and
\* the predecessor of a checked vertex are not written again.
C11_LoopInvariant ==
    [][ (pc' = "loop" /\ ~overflowed') =>
          /\ \A x \in DOMAIN pq' : pq'[x] = dists_from_src'[x + 1]
          /\ pc = "loop" =>
                /\ ~checked[node'[1] + 1]
                /\ node'[1] \notin DOMAIN pq'
                /\ dist_src # None => dist_src[1] <= dist_src'[1]
                /\ \A v \in 1..Len(checked) :
                       checked[v] => /\ dists_from_src'[v] = dists_from_src[v]
                                     /\ parents'[v] = parents[v] ]_vars

\* Without any overflow, a vertex whose key a relaxation lowered has been
\* extracted after src, and a vertex checked before it has an edge back to it.
C11_Witness ==
    /\ pc = "loop"
    /\ ~overflowed
    /\ node # None
    /\ dist_src[1] > 0
    /\ dist_src[1] < USIZE_MAX
    /\ parents[node[1] + 1] # None
    /\ \E v \in 1..Len(checked) :
           /\ v - 1 # node[1]
           /\ checked[v]
           /\ EdgeWeights(graph, node[1], v - 1) # {}

\* ------------------------------------------------------------------ the queue alone
MaxElems == 3
MaxKey == 2
Elems == 0..(MaxElems - 1)
Keys == (0..MaxKey) \cup {USIZE_MAX}

InitPQ ==
    /\ \E input \in SUBSET Elems : pq = IF input = {} THEN new ELSE from_keys(input)
    /\ PqIdle /\ DjkIdle /\ EqIdle /\ ParseIdle

PQInsert ==
    /\ \E element \in Elems, key \in Keys :
          /\ pq' = insert(pq, element, key)
          /\ op' = << "insert", element, key >>
    /\ ret' = None
    /\ watch' = None
    /\ UNCHANGED << djk_vars, eq_vars, parse_vars >>

\* watch remembers a change_key that lowered the key of a present element.
PQChangeKey ==
    /\ \E element \in Elems, key \in Keys :
          /\ pq' = change_key(pq, element, key)
          /\ op' = << "change_key", element, key >>
          /\ watch' = IF element \in DOMAIN pq /\ key < pq[element]
                      THEN Some(<< element, key, "pending" >>)
                      ELSE None
    /\ ret' = None
    /\ UNCHANGED << djk_vars, eq_vars, parse_vars >>

PQExtractMin ==
    /\ \E order \in IterOrders(pq) :
          LET ex == extract_min(pq, order)
          IN  /\ pq' = ex.map
              /\ ret' = ex.ret
              /\ watch' = IF watch # None /\ ex.ret # None /\ watch[1][3] = "pending"
                             /\ ex.ret[1][1] = watch[1][1]
                          THEN Some(<< watch[1][1], watch[1][2], "returned" >>)
                          ELSE IF watch # None /\ watch[1][3] = "pending" THEN watch
                          ELSE None
    /\ op' = << "extract_min", 0, 0 >>
    /\ UNCHANGED << djk_vars, eq_vars, parse_vars >>

NextPQ == PQInsert \/ PQChangeKey \/ PQExtractMin

SpecPQ == InitPQ /\ [][NextPQ]_vars

\* C6: extract_min on a non-empty queue returns an element with its key, the
\* key is no larger than any key of the queue, exactly that element is removed
\* and the rest is untouched; on an empty queue it returns None and the queue
\* stays empty.
C6_ExtractMinContract ==
    [][ op'[1] = "extract_min" =>
          IF DOMAIN pq = {}
          THEN ret' = None /\ pq' = pq
          ELSE /\ ret' # None
               /\ ret'[1][1] \in DOMAIN pq
               /\ ret'[1][2] = pq[ret'[1][1]]
               /\ \A x \in DOMAIN pq : ret'[1][2] <= pq[x]
               /\ DOMAIN pq' = DOMAIN pq \ {ret'[1][1]}
               /\ \A x \in DOMAIN pq' : pq'[x] = pq[x] ]_vars

\* extract_min has just returned one of two elements tied on the minimum key,
\* and an element with a larger key stays queued.
C6_Witness ==
    /\ op[1] = "extract_min"
    /\ ret # None
    /\ \E x \in DOMAIN pq : pq[x] = ret[1][2]
    /\ \E x \in DOMAIN pq : pq[x] > ret[1][2]

\* C7: after change_key lowered the key of a present element to k, the
\* extract_min calls that follow return that element, with key k, before any
\* element with a key above k; and change_key on an absent element leaves the
\* queue as it was.
C7_ChangeKeyContract ==
    [][ /\ (op'[1] = "extract_min" /\ watch # None /\ watch[1][3] = "pending") =>
            /\ ret' # None
            /\ \/ ret'[1] = << watch[1][1], watch[1][2] >>
               \/ ret'[1][1] # watch[1][1] /\ ret'[1][2] <= watch[1][2]
        /\ (op'[1] = "change_key" /\ op'[2] \notin DOMAIN pq) => pq' = pq ]_vars

\* The element whose key was lowered has been returned while an element with a
\* larger key is still queued.
C7_Witness ==
    /\ watch # None
    /\ watch[1][3] = "returned"
    /\ ret = Some(<< watch[1][1], watch[1][2] >>)
    /\ \E x \in DOMAIN pq : pq[x] > watch[1][2]

\* ------------------------------------------------------------------ Graph::eq alone
EqMaxVertices == 2
EqMaxNeighbors == 3
EqMaxWeight == 1

EqLists(n) ==
    UNION { [1..k -> Vertices(n) \X (1..EqMaxWeight)] : k \in 0..EqMaxNeighbors }

\* Graph::new(adj) for every adjacency list within the bounds.
EqGraphs(max_n) == UNION { [1..n -> EqLists(n)] : n \in 0..max_n }

InitEq ==
    /\ lhs \in EqGraphs(EqMaxVertices)
    /\ rhs \in EqGraphs(EqMaxVertices)
    /\ eq_ret = None
    /\ pq = EmptyMap
    /\ DjkIdle /\ PqIdle /\ ParseIdle

\* lhs == rhs
Compare ==
    /\ eq_ret = None
    /\ eq_ret' = Some(eq(lhs, rhs))
    /\ UNCHANGED << lhs, rhs, pq, djk_vars, pq_vars, parse_vars >>

NextEq == Compare

SpecEq == InitEq /\ [][NextEq]_vars

\* How often x occurs in list.
Count(list, x) == Cardinality({ i \in 1..Len(list) : list[i] = x })

SameMultiset(a, b) == \A x \in Range(a) \cup Range(b) : Count(a, x) = Count(b, x)

\* C8: == is true exactly when the graphs have the same vertex count and, at
\* every vertex, neighbor lists that are equal as multisets of
\* (neighbor, weight) pairs.
C8_EqIsMultisetEquality ==
    eq_ret # None =>
        (eq_ret[1] <=> /\ Len(lhs) = Len(rhs)
                       /\ \A vertex \in 1..Len(lhs) : SameMultiset(lhs[vertex], rhs[vertex]))

\* ------------------------------------------------------------------ Graph::from_str alone
ParseMaxVertices == 2
ParseMaxTokens == 2
ParseMaxNumber == 1

\* usize as Display writes it.
RECURSIVE to_string(_)
to_string(n) ==
    IF n < 10 THEN << DigitChars[n + 1] >>
    ELSE to_string(n \div 10) \o << DigitChars[(n % 10) + 1] >>

\* A token of a document: a well-formed <id>,<weight>, or one of the three
\* malformed shapes.
TokenKinds == { "ok", "nocomma", "badid", "badweight" }
DocTokens ==
    { t \in TokenKinds \X (0..ParseMaxNumber) \X (0..ParseMaxNumber) :
        t[1] # "ok" => t[2] = ParseMaxNumber /\ t[3] = ParseMaxNumber }

token_text(t) ==
    CASE t[1] = "ok" -> to_string(t[2]) \o << "," >> \o to_string(t[3])
      [] t[1] = "nocomma" -> to_string(t[2])
      [] t[1] = "badid" -> << "x", "," >> \o to_string(t[3])
      [] t[1] = "badweight" -> to_string(t[2]) \o << ",", "x" >>

\* Headers: a vertex count, or a first line that is no integer.
BadHeaders == { <<>>, << "x" >>, << "1", " " >>, << "-", "1" >> }

\* At most ParseMaxTokens tokens << line, token >> spread, in order, over k lines.
TokenSeqs(k) ==
    UNION { { ts \in [1..m -> (1..k) \X DocTokens] :
                \A i \in 1..(m - 1) : ts[i][1] <= ts[i + 1][1] } : m \in 0..ParseMaxTokens }

RECURSIVE row_of(_, _, _)
row_of(ts, line, i) ==
    IF i > Len(ts) THEN <<>>
    ELSE IF ts[i][1] = line THEN << ts[i][2] >> \o row_of(ts, line, i + 1)
    ELSE row_of(ts, line, i + 1)

\* A document: the header, k neighbor lines of tokens, whether a line feed
\* ends the header line and the last neighbor line, and whether the tokens of
\* a line are spaced out by more than one blank.
Document(h, k, ts, hn, fn, wd) ==
    [header |-> h, rows |-> [l \in 1..k |-> row_of(ts, l, 1)],
     header_nl |-> hn, final_nl |-> fn, wide |-> wd]

\* k <= n lines under a header n, at most one line under a header that is no
\* integer; only a header without neighbor lines can lack its line feed.
Headers(k) ==
    { << "num", n >> : n \in k..ParseMaxVertices }
    \cup (IF k <= 1 THEN { << "bad", b >> : b \in BadHeaders } ELSE {})

RECURSIVE row_text(_, _, _)
row_text(row, i, wide) ==
    IF i > Len(row) THEN <<>>
    ELSE (IF i > 1 THEN (IF wide THEN << " ", "\t" >> ELSE << " " >>) ELSE <<>>)
         \o token_text(row[i]) \o row_text(row, i + 1, wide)

RECURSIVE rows_text(_, _, _)
rows_text(rows, l, wide) ==
    IF l > Len(rows) THEN <<>>
    ELSE (IF l > 1 THEN << "\n" >> ELSE <<>>)
         \o row_text(rows[l], 1, wide) \o rows_text(rows, l + 1, wide)

doc_text(d) ==
    (IF d.header[1] = "num" THEN to_string(d.header[2]) ELSE d.header[2])
    \o (IF d.header_nl THEN << "\n" >> ELSE <<>>)
    \o rows_text(d.rows, 1, d.wide)
    \o (IF d.final_nl THEN << "\n" >> ELSE <<>>)

InitParse ==
    /\ \E k \in 0..ParseMaxVertices : \E h \in Headers(k), ts \in TokenSeqs(k),
             hn \in BOOLEAN, fn \in BOOLEAN, wd \in BOOLEAN :
          /\ k > 0 => hn
          /\ k = 0 => ~fn
          /\ wd => Len(ts) > 1
          /\ doc = Document(h, k, ts, hn, fn, wd)
    /\ text = doc_text(doc)
    /\ parse_ret = None
    /\ pq = EmptyMap
    /\ DjkIdle /\ PqIdle /\ EqIdle

\* Graph::from_str(text)
Parse ==
    /\ parse_ret = None
    /\ parse_ret' = Some(from_str(text))
    /\ UNCHANGED << doc, text, pq, djk_vars, pq_vars, eq_vars >>

NextParse == Parse

SpecParse == InitParse /\ [][NextParse]_vars

WellFormed(d) ==
    /\ d.header[1] = "num"
    /\ \A l \in 1..Len(d.rows) : \A i \in 1..Len(d.rows[l]) : d.rows[l][i][1] = "ok"

Malformed(d) ==
    \/ d.header[1] = "bad"
    \/ \E l \in 1..Len(d.rows) : \E i \in 1..Len(d.rows[l]) : d.rows[l][i][1] # "ok"

\* The graph a well-formed document describes: the pairs of line i at vertex i,
\* in token order, and an empty list at every vertex past the last line.
ExpectedAdj(d) ==
    [v \in 1..d.header[2] |->
        IF v <= Len(d.rows)
        THEN [i \in 1..Len(d.rows[v]) |-> << d.rows[v][i][2], d.rows[v][i][3] >>]
        ELSE <<>>]

\* C9 as claimed: every text of a header n and k <= n lines of <id>,<weight>
\* tokens parses to the graph it describes, and a text with a header that is no
\* integer or with a malformed token yields a ParseGraphError.
C9_ParseAsClaimed ==
    parse_ret # None =>
        /\ WellFormed(doc) => parse_ret[1] = Ok(ExpectedAdj(doc))
        /\ Malformed(doc) => ~is_ok(parse_ret[1])

\* C9 amended: the same, for the texts in which a line feed ends the header
\* line; a text of the header alone, with no line feed, yields the
\* ParseGraphError "cannot split on newline".
C9_ParseWithHeaderLineFeed ==
    parse_ret # None =>
        /\ (WellFormed(doc) /\ doc.header_nl) => parse_ret[1] = Ok(ExpectedAdj(doc))
        /\ (WellFormed(doc) /\ ~doc.header_nl) =>
               parse_ret[1] = Err("cannot split on newline")
        /\ Malformed(doc) => ~is_ok(parse_ret[1])

\* A text with fewer neighbor lines than vertices and a line of two tokens has
\* been parsed to a graph.
C9_Witness ==
    /\ parse_ret # None
    /\ is_ok(parse_ret[1])
    /\ WellFormed(doc)
    /\ Len(doc.rows) < doc.header[2]
    /\ \E l \in 1..Len(doc.rows) : Len(doc.rows[l]) = 2
    /\ Len(parse_ret[1][2]) = doc.header[2]

====
